---- MODULE Spec2Model ----
(***************************************************************************)
(* The two MCP adapter servers of the repository, calendar-server/server.py *)
(* (MinimalCalendarServer) and email-server/server.py (MinimalEmailServer), *)
(* as one state machine.  A behaviour is the life of one server process:    *)
(* construction (initialize_service), then a sequence of tool calls through *)
(* call_tool against the provider (Google Calendar / Gmail), whose stored   *)
(* resources are part of the state.                                         *)
(***************************************************************************)
EXTENDS Integers, Sequences, FiniteSets, TLC

VARIABLES
    self,       \* which program this process runs: "calendar" or "email"
    phase,      \* "constructing", "serving" or "crashed"
    token,      \* the state of token.json when the process starts
    service,    \* self.service
    calendar,   \* provider side: event id -> event resource
    mailbox,    \* provider side: message id -> message resource
    last,       \* the last tool call: name, arguments, what came back, requests issued
    deleted,    \* history: event ids deleted and not created again since
    sent,       \* history: message id -> the arguments of the send_email that made it
    tasks,      \* the event loop's call_tool tasks, in order of arrival
    wire        \* history: the provider requests in the order sent, each with its task

vars == <<self, phase, token, service, calendar, mailbox, last, deleted, sent, tasks, wire>>

-----------------------------------------------------------------------------
(* Python values.  Every value has the same record shape so that values of  *)
(* different Python types can sit in one dict; t is the Python type.        *)
(*   s     the characters of an opaque str (ids, titles, addresses)         *)
(*   cp    the code points of a str that is followed character by character *)
(*   items the elements of a list of str                                    *)

PyVal(t, s, cp, items) == [t |-> t, s |-> s, cp |-> cp, items |-> items]
None == PyVal("none", "", <<>>, <<>>)
Str(s) == PyVal("str", s, <<>>, <<>>)
Text(cp) == PyVal("str", "", cp, <<>>)
Bool(b) == PyVal("bool", IF b THEN "True" ELSE "False", <<>>, <<>>)
PyInt(s) == PyVal("int", s, <<>>, <<>>)
List(items) == PyVal("list", "", <<>>, items)
SubDict == PyVal("dict", "", <<>>, <<>>)
Resource(api) == PyVal("resource", api, <<>>, <<>>)

\* bool(v)
Truthy(v) ==
    CASE v.t = "none" -> FALSE
      [] v.t = "str" -> v.s # "" \/ v.cp # <<>>
      [] v.t = "bool" -> v.s = "True"
      [] v.t = "int" -> v.s # "0"
      [] v.t = "list" -> v.items # <<>>
      [] OTHER -> TRUE

\* str(v), as an f-string formats v
Fmt(v) ==
    CASE v.t = "none" -> Str("None")
      [] v.t = "str" -> v
      [] v.t = "list" -> PyVal("str", "[...]", <<>>, v.items)
      [] OTHER -> Str(v.s)

\* A dict is a function from the keys present to values.
EmptyDict == [k \in {} |-> None]
Has(d, k) == k \in DOMAIN d
Get(d, k, default) == IF k \in DOMAIN d THEN d[k] ELSE default
Put(d, k, v) == [x \in DOMAIN d \cup {k} |-> IF x = k THEN v ELSE d[x]]
Merge(d, e) == [x \in DOMAIN d \cup DOMAIN e |-> IF x \in DOMAIN e THEN e[x] ELSE d[x]]

\* A str built by concatenation is the sequence of its pieces.
TextContent(pieces) == [type |-> "text", text |-> pieces]

\* What a handler hands back: a returned result or a raised exception, the
\* provider requests it issued, and the provider's store afterwards.
Return(result, requests, store) ==
    [raised |-> FALSE, result |-> result, error |-> "", requests |-> requests, store |-> store]
Raise(error, requests, store) ==
    [raised |-> TRUE, result |-> <<>>, error |-> error, requests |-> requests, store |-> store]

\* One provider request as logged: the method, its id parameter, its body,
\* and the provider's answer a: whether the request reached the provider (the
\* client library refuses to build one whose required parameter is None),
\* whether it succeeded, and the response.
Request(api, id, body, a) ==
    [api |-> api, id |-> id, body |-> body, issued |-> a.issued, ok |-> a.ok, resp |-> a.resp]

-----------------------------------------------------------------------------
(* The calendar provider: events() of the Google Calendar v3 client.        *)

EventIdOrder == <<"e1">>
EventIds == {EventIdOrder[i] : i \in DOMAIN EventIdOrder}

\* What the provider answers: ok and a response, or an error message.
Answer(ok, resp, err, store, issued) ==
    [ok |-> ok, resp |-> resp, err |-> err, store |-> store, issued |-> issued]

NonNull(d) == [k \in {x \in DOMAIN d : d[x].t # "none"} |-> d[k]]

\* events().insert(calendarId='primary', body=event).execute()
EventsInsert(cal, body, o) ==
    IF o.fail = 1 THEN Answer(FALSE, EmptyDict, "HttpError 503", cal, TRUE)
    ELSE IF ~Has(NonNull(body), "start.dateTime") \/ ~Has(NonNull(body), "end.dateTime")
    THEN Answer(FALSE, EmptyDict, "HttpError 400", cal, TRUE)
    ELSE IF o.id \in DOMAIN cal THEN Answer(FALSE, EmptyDict, "HttpError 403", cal, TRUE)
    ELSE LET stored == Put(Put(NonNull(body), "id", Str(o.id)), "htmlLink", Str("link"))
         IN Answer(TRUE, stored, "", Put(cal, o.id, stored), TRUE)

\* events().get(calendarId='primary', eventId=event_id).execute()
EventsGet(cal, id, failing) ==
    IF id.t = "none" THEN Answer(FALSE, EmptyDict, "Missing required parameter eventId", cal, FALSE)
    ELSE IF failing THEN Answer(FALSE, EmptyDict, "HttpError 503", cal, TRUE)
    ELSE IF id.s \notin DOMAIN cal THEN Answer(FALSE, EmptyDict, "HttpError 404", cal, TRUE)
    ELSE Answer(TRUE, cal[id.s], "", cal, TRUE)

\* events().update(calendarId='primary', eventId=event_id, body=event).execute()
EventsUpdate(cal, id, body, failing) ==
    IF id.t = "none" THEN Answer(FALSE, EmptyDict, "Missing required parameter eventId", cal, FALSE)
    ELSE IF failing THEN Answer(FALSE, EmptyDict, "HttpError 503", cal, TRUE)
    ELSE IF id.s \notin DOMAIN cal THEN Answer(FALSE, EmptyDict, "HttpError 404", cal, TRUE)
    ELSE LET stored == Put(NonNull(body), "id", id)
         IN Answer(TRUE, stored, "", Put(cal, id.s, stored), TRUE)

\* events().delete(calendarId='primary', eventId=event_id).execute()
EventsDelete(cal, id, failing) ==
    IF id.t = "none" THEN Answer(FALSE, EmptyDict, "Missing required parameter eventId", cal, FALSE)
    ELSE IF failing THEN Answer(FALSE, EmptyDict, "HttpError 503", cal, TRUE)
    ELSE IF id.s \notin DOMAIN cal THEN Answer(FALSE, EmptyDict, "HttpError 404", cal, TRUE)
    ELSE Answer(TRUE, EmptyDict, "", [x \in DOMAIN cal \ {id.s} |-> cal[x]], TRUE)

\* The events of the store in id order, as events().list returns them.
RECURSIVE EventsOf(_, _)
EventsOf(cal, ids) ==
    IF ids = <<>> THEN <<>>
    ELSE (IF Head(ids) \in DOMAIN cal THEN <<cal[Head(ids)]>> ELSE <<>>) \o EventsOf(cal, Tail(ids))

\* events().list(...).execute(): "absent" is a response without the items
\* key, "empty" one with items = [], "items" one listing the stored events.
EventsList(cal, o) ==
    IF o.fail = 1 THEN Answer(FALSE, <<>>, "HttpError 503", cal, TRUE)
    ELSE IF o.list = "items" /\ DOMAIN cal # {}
    THEN Answer(TRUE, [present |-> TRUE, items |-> EventsOf(cal, EventIdOrder)], "", cal, TRUE)
    ELSE Answer(TRUE, [present |-> o.list = "empty", items |-> <<>>], "", cal, TRUE)

-----------------------------------------------------------------------------
(* MinimalCalendarServer: the operation handlers.  An event resource is a   *)
(* dict whose nested start/end dicts are flattened into dotted keys; the    *)
(* key "start" itself says that the nested dict exists.                     *)

CalendarNotInitialized ==
    TextContent(<<Str("Google Calendar service is not initialized. Please check authentication.")>>)

Iterable(v) == v.t \in {"list", "str"}

add_event(svc, args, cal, o) ==
    IF ~Truthy(svc) THEN Return(<<CalendarNotInitialized>>, <<>>, cal)
    ELSE
    LET title == Get(args, "title", None)
        description == Get(args, "description", Str(""))
        start_datetime == Get(args, "start_datetime", None)
        end_datetime == Get(args, "end_datetime", None)
        timezone == Get(args, "timezone", Str("UTC"))
        attendees == Get(args, "attendees", List(<<>>))
        location == Get(args, "location", Str(""))
        event == ("summary" :> title) @@ ("description" :> description)
                 @@ ("location" :> location)
                 @@ ("start" :> SubDict) @@ ("start.dateTime" :> start_datetime)
                 @@ ("start.timeZone" :> timezone)
                 @@ ("end" :> SubDict) @@ ("end.dateTime" :> end_datetime)
                 @@ ("end.timeZone" :> timezone)
    IN  IF Truthy(attendees) /\ ~Iterable(attendees)
        THEN Raise("object is not iterable", <<>>, cal)
        ELSE
        LET body == IF Truthy(attendees) THEN Put(event, "attendees", attendees) ELSE event
            a == EventsInsert(cal, body, o)
            req == <<Request("events.insert", None, body, a)>>
        IN  IF a.ok
            THEN Return(<<TextContent(<<Str("Event created! ID: "), Fmt(a.resp["id"]),
                                        Str("\nEvent link: "),
                                        Fmt(Get(a.resp, "htmlLink", Str("N/A")))>>)>>,
                        req, a.store)
            ELSE Return(<<TextContent(<<Str("Failed to create event: "), Str(a.err)>>)>>,
                        req, a.store)

\* The lines of list_events' loop over the events, or the KeyError it raises.
RECURSIVE EventLines(_)
EventLines(events) ==
    IF events = <<>> THEN [err |-> "", pieces |-> <<>>]
    ELSE LET event == Head(events)
             rest == EventLines(Tail(events))
         IN  IF ~Has(event, "start") THEN [err |-> "'start'", pieces |-> <<>>]
             ELSE IF ~Has(event, "summary") THEN [err |-> "'summary'", pieces |-> <<>>]
             ELSE IF ~Has(event, "id") THEN [err |-> "'id'", pieces |-> <<>>]
             ELSE IF rest.err # "" THEN rest
             ELSE LET start == Get(event, "start.dateTime", Get(event, "start.date", None))
                  IN [err |-> "",
                      pieces |-> <<Str("- "), Fmt(event["summary"]), Str(" ("), Fmt(start),
                                   Str(") - ID: "), Fmt(event["id"])>>
                                 \o (IF rest.pieces = <<>> THEN <<>> ELSE <<Str("\n")>>)
                                 \o rest.pieces]

\* list_events that returns the (empty) list of lines when nothing is listed.
list_events_empty_result(svc, args, cal, o) ==
    IF ~Truthy(svc) THEN Return(<<CalendarNotInitialized>>, <<>>, cal)
    ELSE
    LET a == EventsList(cal, o)
        req == <<Request("events.list", None, EmptyDict, a)>>
        events == IF a.resp.present THEN a.resp.items ELSE <<>>
        lines == EventLines(events)
    IN  IF ~a.ok
        THEN Return(<<TextContent(<<Str("Failed to list events: "), Str(a.err)>>)>>, req, a.store)
        ELSE IF lines.err # ""
        THEN Return(<<TextContent(<<Str("Failed to list events: "), Str(lines.err)>>)>>,
                    req, a.store)
        ELSE Return([i \in 1..Len(events) |-> TextContent(lines.pieces)], req, a.store)

list_events(svc, args, cal, o) ==
    IF ~Truthy(svc) THEN Return(<<CalendarNotInitialized>>, <<>>, cal)
    ELSE
    LET max_results == Get(args, "max_results", PyInt("10"))
        time_min == Get(args, "time_min", Str("utcnow"))
        time_max == Get(args, "time_max", None)
        params == ("timeMin" :> time_min) @@ ("timeMax" :> time_max)
                  @@ ("maxResults" :> max_results)
        a == EventsList(cal, o)
        req == <<Request("events.list", None, params, a)>>
    IN  IF ~a.ok
        THEN Return(<<TextContent(<<Str("Failed to list events: "), Str(a.err)>>)>>, req, a.store)
        ELSE
        LET events == IF a.resp.present THEN a.resp.items ELSE <<>>
            lines == EventLines(events)
        IN  IF events = <<>>
            THEN Return(<<TextContent(<<Str("No upcoming events found.")>>)>>, req, a.store)
            ELSE IF lines.err # ""
            THEN Return(<<TextContent(<<Str("Failed to list events: "), Str(lines.err)>>)>>,
                        req, a.store)
            ELSE Return(<<TextContent(<<Str("Upcoming events:\n")>> \o lines.pieces)>>,
                        req, a.store)

\* MergedEvent written with args.get(...): an absent argument overwrites its
\* field with None.
MergedEventOverwriteAll(fetched, args) ==
    LET e1 == Put(fetched, "summary", Get(args, "title", None))
        e2 == Put(e1, "description", Get(args, "description", None))
        e3 == Put(e2, "start.dateTime", Get(args, "start_datetime", None))
        e4 == Put(e3, "end.dateTime", Get(args, "end_datetime", None))
    IN  IF ~Has(fetched, "start") THEN [ok |-> FALSE, err |-> "'start'", event |-> e2]
        ELSE IF ~Has(fetched, "end") THEN [ok |-> FALSE, err |-> "'end'", event |-> e3]
        ELSE [ok |-> TRUE, err |-> "", event |-> e4]

\* Lines 180-187: the fetched event with the fields named by the arguments
\* present overwritten; ok = FALSE is the KeyError of a fetched event without
\* the nested dict to write into.
MergedEvent(fetched, args) ==
    LET e1 == IF Has(args, "title") THEN Put(fetched, "summary", args["title"]) ELSE fetched
        e2 == IF Has(args, "description") THEN Put(e1, "description", args["description"]) ELSE e1
        e3 == IF Has(args, "start_datetime")
              THEN Put(e2, "start.dateTime", args["start_datetime"]) ELSE e2
        e4 == IF Has(args, "end_datetime")
              THEN Put(e3, "end.dateTime", args["end_datetime"]) ELSE e3
    IN  IF Has(args, "start_datetime") /\ ~Has(e2, "start")
        THEN [ok |-> FALSE, err |-> "'start'", event |-> e2]
        ELSE IF Has(args, "end_datetime") /\ ~Has(e3, "end")
        THEN [ok |-> FALSE, err |-> "'end'", event |-> e3]
        ELSE [ok |-> TRUE, err |-> "", event |-> e4]

\* update_event that writes although the get failed.
update_event_blind(svc, args, cal, o) ==
    IF ~Truthy(svc) THEN Return(<<CalendarNotInitialized>>, <<>>, cal)
    ELSE
    LET event_id == Get(args, "event_id", None)
        g == EventsGet(cal, event_id, o.fail = 1)
        get == <<Request("events.get", event_id, EmptyDict, g)>>
        m == MergedEvent(g.resp, args)
        u == EventsUpdate(g.store, event_id, m.event, o.fail = 2)
        both == get \o <<Request("events.update", event_id, m.event, u)>>
    IN  IF ~u.ok
        THEN Return(<<TextContent(<<Str("Failed to update event: "), Str(u.err)>>)>>,
                    both, u.store)
        ELSE Return(<<TextContent(<<Str("Event updated! ID: "), Fmt(u.resp["id"])>>)>>,
                    both, u.store)

update_event(svc, args, cal, o) ==
    IF ~Truthy(svc) THEN Return(<<CalendarNotInitialized>>, <<>>, cal)
    ELSE
    LET event_id == Get(args, "event_id", None)
        g == EventsGet(cal, event_id, o.fail = 1)
        get == <<Request("events.get", event_id, EmptyDict, g)>>
        m == MergedEvent(g.resp, args)
        u == EventsUpdate(g.store, event_id, m.event, o.fail = 2)
        both == get \o <<Request("events.update", event_id, m.event, u)>>
    IN  IF ~g.ok
        THEN Return(<<TextContent(<<Str("Failed to update event: "), Str(g.err)>>)>>, get, g.store)
        ELSE IF ~m.ok
        THEN Return(<<TextContent(<<Str("Failed to update event: "), Str(m.err)>>)>>,
                    get, g.store)
        ELSE IF ~u.ok
        THEN Return(<<TextContent(<<Str("Failed to update event: "), Str(u.err)>>)>>,
                    both, u.store)
        ELSE Return(<<TextContent(<<Str("Event updated! ID: "), Fmt(u.resp["id"])>>)>>,
                    both, u.store)

\* delete_event without the check of self.service.
delete_event_unchecked(svc, args, cal, o) ==
    LET event_id == Get(args, "event_id", None)
        a == EventsDelete(cal, event_id, o.fail = 1)
        req == <<Request("events.delete", event_id, EmptyDict, a)>>
    IN  IF a.ok
        THEN Return(<<TextContent(<<Str("Event "), Fmt(event_id), Str(" deleted!")>>)>>,
                    req, a.store)
        ELSE Return(<<TextContent(<<Str("Failed to delete event: "), Str(a.err)>>)>>,
                    req, a.store)

delete_event(svc, args, cal, o) ==
    IF ~Truthy(svc) THEN Return(<<CalendarNotInitialized>>, <<>>, cal)
    ELSE
    LET event_id == Get(args, "event_id", None)
        a == EventsDelete(cal, event_id, o.fail = 1)
        req == <<Request("events.delete", event_id, EmptyDict, a)>>
    IN  IF a.ok
        THEN Return(<<TextContent(<<Str("Event "), Fmt(event_id), Str(" deleted!")>>)>>,
                    req, a.store)
        ELSE Return(<<TextContent(<<Str("Failed to delete event: "), Str(a.err)>>)>>,
                    req, a.store)

\* call_tool without its try/except: the exception leaves call_tool.
Uncaught(h) == h

\* try: ... except Exception as e: return [TextContent(text=f"Error: {str(e)}")]
Caught(h) ==
    IF h.raised
    THEN Return(<<TextContent(<<Str("Error: "), Str(h.error)>>)>>, h.requests, h.store)
    ELSE h

\* call_tool whose else branch falls through to a handler.
calendar_call_tool_default(svc, name, args, cal, o) ==
    Caught(CASE name = "add_calendar_event" -> add_event(svc, args, cal, o)
             [] name = "update_calendar_event" -> update_event(svc, args, cal, o)
             [] name = "delete_calendar_event" -> delete_event(svc, args, cal, o)
             [] OTHER -> list_events(svc, args, cal, o))

\* call_tool of MinimalCalendarServer.setup_tools
calendar_call_tool(svc, name, args, cal, o) ==
    Caught(CASE name = "add_calendar_event" -> add_event(svc, args, cal, o)
             [] name = "list_calendar_events" -> list_events(svc, args, cal, o)
             [] name = "update_calendar_event" -> update_event(svc, args, cal, o)
             [] name = "delete_calendar_event" -> delete_event(svc, args, cal, o)
             [] OTHER -> Return(<<TextContent(<<Str("Unknown tool: "), Str(name)>>)>>, <<>>, cal))

-----------------------------------------------------------------------------
(* Text encodings.  A str is a sequence of code points, bytes a sequence of *)
(* numbers 0..255, and base64 text a sequence of ASCII codes.               *)

\* str.encode('utf-8')
RECURSIVE Utf8Encode(_)
Utf8Encode(cp) ==
    IF cp = <<>> THEN <<>>
    ELSE LET c == Head(cp)
             one == IF c < 128 THEN <<c>>
                    ELSE IF c < 2048 THEN <<192 + (c \div 64), 128 + (c % 64)>>
                    ELSE IF c < 65536
                    THEN <<224 + (c \div 4096), 128 + ((c \div 64) % 64), 128 + (c % 64)>>
                    ELSE <<240 + (c \div 262144), 128 + ((c \div 4096) % 64),
                           128 + ((c \div 64) % 64), 128 + (c % 64)>>
         IN one \o Utf8Encode(Tail(cp))

Continuation(b) == b >= 128 /\ b < 192

\* bytes.decode('utf-8'): the code points, or ok = FALSE for UnicodeDecodeError
RECURSIVE Utf8Decode(_)
Utf8Decode(bytes) ==
    IF bytes = <<>> THEN [ok |-> TRUE, cp |-> <<>>]
    ELSE LET b == Head(bytes)
             n == IF b < 128 THEN 1 ELSE IF b >= 192 /\ b < 224 THEN 2
                  ELSE IF b >= 224 /\ b < 240 THEN 3 ELSE IF b >= 240 /\ b < 248 THEN 4 ELSE 0
         IN  IF n = 0 \/ Len(bytes) < n
                \/ \E i \in 2..n : ~Continuation(bytes[i])
             THEN [ok |-> FALSE, cp |-> <<>>]
             ELSE LET c == CASE n = 1 -> b
                             [] n = 2 -> (b - 192) * 64 + (bytes[2] - 128)
                             [] n = 3 -> (b - 224) * 4096 + (bytes[2] - 128) * 64 + (bytes[3] - 128)
                             [] n = 4 -> (b - 240) * 262144 + (bytes[2] - 128) * 4096
                                         + (bytes[3] - 128) * 64 + (bytes[4] - 128)
                      rest == Utf8Decode(SubSeq(bytes, n + 1, Len(bytes)))
                  IN IF rest.ok THEN [ok |-> TRUE, cp |-> <<c>> \o rest.cp] ELSE rest

\* The ASCII code of base64 digit n in the standard or the URL-safe alphabet.
B64Char(n, urlsafe) ==
    IF n < 26 THEN 65 + n
    ELSE IF n < 52 THEN 97 + (n - 26)
    ELSE IF n < 62 THEN 48 + (n - 52)
    ELSE IF n = 62 THEN (IF urlsafe THEN 45 ELSE 43)
    ELSE (IF urlsafe THEN 95 ELSE 47)

\* The digit of an ASCII code, or -1 for a character outside the alphabet.
B64Digit(c, urlsafe) ==
    IF c >= 65 /\ c <= 90 THEN c - 65
    ELSE IF c >= 97 /\ c <= 122 THEN c - 97 + 26
    ELSE IF c >= 48 /\ c <= 57 THEN c - 48 + 52
    ELSE IF c = (IF urlsafe THEN 45 ELSE 43) THEN 62
    ELSE IF c = (IF urlsafe THEN 95 ELSE 47) THEN 63
    ELSE -1

RECURSIVE B64Encode(_, _)
B64Encode(bytes, urlsafe) ==
    IF bytes = <<>> THEN <<>>
    ELSE IF Len(bytes) = 1
    THEN <<B64Char(bytes[1] \div 4, urlsafe), B64Char((bytes[1] % 4) * 16, urlsafe), 61, 61>>
    ELSE IF Len(bytes) = 2
    THEN <<B64Char(bytes[1] \div 4, urlsafe),
           B64Char((bytes[1] % 4) * 16 + (bytes[2] \div 16), urlsafe),
           B64Char((bytes[2] % 16) * 4, urlsafe), 61>>
    ELSE <<B64Char(bytes[1] \div 4, urlsafe),
           B64Char((bytes[1] % 4) * 16 + (bytes[2] \div 16), urlsafe),
           B64Char((bytes[2] % 16) * 4 + (bytes[3] \div 64), urlsafe),
           B64Char(bytes[3] % 64, urlsafe)>>
         \o B64Encode(SubSeq(bytes, 4, Len(bytes)), urlsafe)

\* The digits of base64 text up to its padding; other characters are discarded.
RECURSIVE B64Digits(_, _)
B64Digits(chars, urlsafe) ==
    IF chars = <<>> \/ Head(chars) = 61 THEN <<>>
    ELSE (IF B64Digit(Head(chars), urlsafe) >= 0
          THEN <<B64Digit(Head(chars), urlsafe)>> ELSE <<>>)
         \o B64Digits(Tail(chars), urlsafe)

RECURSIVE B64Bytes(_)
B64Bytes(d) ==
    IF Len(d) < 2 THEN <<>>
    ELSE IF Len(d) = 2 THEN <<d[1] * 4 + (d[2] \div 16)>>
    ELSE IF Len(d) = 3 THEN <<d[1] * 4 + (d[2] \div 16), (d[2] % 16) * 16 + (d[3] \div 4)>>
    ELSE <<d[1] * 4 + (d[2] \div 16), (d[2] % 16) * 16 + (d[3] \div 4), (d[3] % 4) * 64 + d[4]>>
         \o B64Bytes(SubSeq(d, 5, Len(d)))

\* The number of '=' that end the text.
RECURSIVE Padding(_)
Padding(chars) ==
    IF chars = <<>> \/ chars[Len(chars)] # 61 THEN 0
    ELSE 1 + Padding(SubSeq(chars, 1, Len(chars) - 1))

\* base64.b64decode / base64.urlsafe_b64decode: the bytes, or ok = FALSE for
\* binascii.Error (incorrect padding)
B64Decode(chars, urlsafe) ==
    LET d == B64Digits(chars, urlsafe)
    IN  IF (Len(d) + Padding(chars)) % 4 # 0 \/ Len(d) % 4 = 1
        THEN [ok |-> FALSE, bytes |-> <<>>]
        ELSE [ok |-> TRUE, bytes |-> B64Bytes(d)]

\* base64.b64decode in place of base64.urlsafe_b64decode
standard_b64decode(chars) == B64Decode(chars, FALSE)

\* base64.urlsafe_b64encode(b).decode()
urlsafe_b64encode(bytes) == B64Encode(bytes, TRUE)
\* base64.urlsafe_b64decode(s)
urlsafe_b64decode(chars) == B64Decode(chars, TRUE)

-----------------------------------------------------------------------------
(* The mail provider: users().messages() of the Gmail v1 client.  A message *)
(* part has a MIME type, headers, a body that may carry base64url data, and *)
(* may have parts of its own.                                               *)

MessageIdOrder == <<"m0", "m1">>
MessageIds == {MessageIdOrder[i] : i \in DOMAIN MessageIdOrder}

Header(name, value) == [name |-> name, value |-> value]
Part(mimeType, headers, hasData, data, parts) ==
    [mimeType |-> mimeType, headers |-> headers, hasData |-> hasData, data |-> data,
     hasParts |-> parts # <<>>, parts |-> parts]

\* users().messages().send(userId='me', body=message).execute(): the provider
\* decodes the raw message, undoes the transfer encoding of its text part and
\* files the message as it was sent.
MessagesSend(box, raw, o) ==
    LET bytes == B64Decode(raw.body, TRUE)
        content == IF raw.cte = "base64" THEN B64Decode(bytes.bytes, FALSE) ELSE bytes
        text == Part(IF raw.subtype = "html" THEN "text/html" ELSE "text/plain", <<>>,
                     TRUE, B64Encode(content.bytes, TRUE), <<>>)
        payload == IF raw.multipart
                   THEN Part("multipart/mixed", raw.headers, FALSE, <<>>, <<text>>)
                   ELSE [text EXCEPT !.headers = raw.headers]
        recipients == {h \in {raw.headers[i] : i \in DOMAIN raw.headers} :
                          h.name \in {"to", "cc", "bcc"} /\ h.value # ""}
    IN  IF o.fail = 1 THEN Answer(FALSE, EmptyDict, "HttpError 503", box, TRUE)
        ELSE IF ~bytes.ok \/ ~content.ok \/ recipients = {}
        THEN Answer(FALSE, EmptyDict, "HttpError 400", box, TRUE)
        ELSE IF o.id \in DOMAIN box THEN Answer(FALSE, EmptyDict, "HttpError 429", box, TRUE)
        ELSE Answer(TRUE, ("id" :> Str(o.id)), "",
                    Put(box, o.id, [id |-> o.id, payload |-> payload]), TRUE)

\* users().messages().get(userId='me', id=message_id).execute()
MessagesGet(box, id, failing) ==
    IF id.t = "none" THEN Answer(FALSE, EmptyDict, "Missing required parameter id", box, FALSE)
    ELSE IF failing THEN Answer(FALSE, EmptyDict, "HttpError 503", box, TRUE)
    ELSE IF id.s \notin DOMAIN box THEN Answer(FALSE, EmptyDict, "HttpError 404", box, TRUE)
    ELSE Answer(TRUE, box[id.s], "", box, TRUE)

\* users().messages().list(userId='me', maxResults=..., q=...).execute():
\* "absent" is a response without the messages key.
MessagesList(box, o) ==
    IF o.fail = 1 THEN Answer(FALSE, <<>>, "HttpError 503", box, TRUE)
    ELSE IF o.list = "items" /\ DOMAIN box # {}
    THEN Answer(TRUE, [present |-> TRUE,
                       items |-> SelectSeq(MessageIdOrder, LAMBDA m : m \in DOMAIN box)],
                "", box, TRUE)
    ELSE Answer(TRUE, [present |-> o.list = "empty", items |-> <<>>], "", box, TRUE)

-----------------------------------------------------------------------------
(* MinimalEmailServer: create_message and the operation handlers.           *)

EmailNotInitialized ==
    TextContent(<<Str("Gmail service is not initialized. Please check authentication.")>>)

\* MIMEText(body, 'html' if is_html else 'plain'): us-ascii text goes as it
\* is (7bit), any other text as the base64 of its UTF-8 bytes.
MIMEText(body, subtype) ==
    IF \A i \in DOMAIN body.cp : body.cp[i] < 128
    THEN [subtype |-> subtype, charset |-> "us-ascii", cte |-> "7bit", body |-> body.cp]
    ELSE [subtype |-> subtype, charset |-> "utf-8", cte |-> "base64",
          body |-> B64Encode(Utf8Encode(body.cp), FALSE)]

\* The header block is carried as it is; the bytes of the text part are what
\* line 104 base64url-encodes.
create_message(to, subject, body, cc, bcc, is_html) ==
    LET part == MIMEText(body, IF Truthy(is_html) THEN "html" ELSE "plain")
        headers == <<Header("to", to.s), Header("subject", subject.s)>>
                   \o (IF Truthy(cc) THEN <<Header("cc", cc.s)>> ELSE <<>>)
                   \o (IF Truthy(bcc) THEN <<Header("bcc", bcc.s)>> ELSE <<>>)
    IN  [multipart |-> Truthy(cc) \/ Truthy(bcc), headers |-> headers,
         subtype |-> part.subtype, charset |-> part.charset, cte |-> part.cte,
         body |-> urlsafe_b64encode(part.body)]

\* args.get(k) or ''
OrEmpty(args, k) == IF Truthy(Get(args, k, None)) THEN args[k] ELSE Str("")

send_email(svc, args, box, o) ==
    IF ~Truthy(svc) THEN Return(<<EmailNotInitialized>>, <<>>, box)
    ELSE
    LET to == OrEmpty(args, "to")
        subject == OrEmpty(args, "subject")
        body == OrEmpty(args, "body")
        cc == OrEmpty(args, "cc")
        bcc == OrEmpty(args, "bcc")
        is_html == Get(args, "is_html", Bool(FALSE))
        message == create_message(to, subject, body, cc, bcc, is_html)
        a == MessagesSend(box, message, o)
        req == <<Request("messages.send", None, message, a)>>
    IN  IF a.ok
        THEN Return(<<TextContent(<<Str("Email sent successfully! Message ID: "),
                                    Fmt(a.resp["id"])>>)>>, req, a.store)
        ELSE Return(<<TextContent(<<Str("Failed to send email: "), Str(a.err)>>)>>,
                    req, a.store)

\* next((h['value'] for h in headers if h['name'] == name), default)
RECURSIVE HeaderValue(_, _, _)
HeaderValue(headers, name, default) ==
    IF headers = <<>> THEN default
    ELSE IF Head(headers).name = name THEN Head(headers).value
    ELSE HeaderValue(Tail(headers), name, default)

\* A loop of list_emails that asks once more for a message whose get failed.
RECURSIVE EmailLinesRetry(_, _, _, _)
EmailLinesRetry(box, ids, k, o) ==
    IF ids = <<>> THEN [err |-> "", pieces |-> <<>>, requests |-> <<>>]
    ELSE LET id == Str(Head(ids))
             first == MessagesGet(box, id, o.fail = k)
             g == IF first.ok THEN first ELSE MessagesGet(box, id, FALSE)
             req == IF first.ok THEN <<Request("messages.get", id, EmptyDict, first)>>
                    ELSE <<Request("messages.get", id, EmptyDict, first),
                           Request("messages.get", id, EmptyDict, g)>>
         IN  IF ~g.ok THEN [err |-> g.err, pieces |-> <<>>, requests |-> req]
             ELSE LET headers == g.resp.payload.headers
                      line == <<Str("- "), Str(HeaderValue(headers, "Subject", "(No Subject)")),
                                Str(" | From: "),
                                Str(HeaderValue(headers, "From", "(Unknown Sender)")),
                                Str(" | Date: "), Str(HeaderValue(headers, "Date", "(No Date)")),
                                Str(" | ID: "), id>>
                      rest == EmailLinesRetry(box, Tail(ids), k + Len(req), o)
                  IN [err |-> rest.err,
                      pieces |-> line \o (IF rest.pieces = <<>> THEN <<>> ELSE <<Str("\n")>>)
                                 \o rest.pieces,
                      requests |-> req \o rest.requests]

\* The loop of list_emails over the listed ids: one get per message in list
\* order, stopping at the first that fails; k numbers the requests of the call.
RECURSIVE EmailLines(_, _, _, _)
EmailLines(box, ids, k, o) ==
    IF ids = <<>> THEN [err |-> "", pieces |-> <<>>, requests |-> <<>>]
    ELSE LET id == Str(Head(ids))
             g == MessagesGet(box, id, o.fail = k)
             req == <<Request("messages.get", id, EmptyDict, g)>>
         IN  IF ~g.ok THEN [err |-> g.err, pieces |-> <<>>, requests |-> req]
             ELSE LET headers == g.resp.payload.headers
                      line == <<Str("- "), Str(HeaderValue(headers, "Subject", "(No Subject)")),
                                Str(" | From: "),
                                Str(HeaderValue(headers, "From", "(Unknown Sender)")),
                                Str(" | Date: "), Str(HeaderValue(headers, "Date", "(No Date)")),
                                Str(" | ID: "), id>>
                      rest == EmailLines(box, Tail(ids), k + 1, o)
                  IN [err |-> rest.err,
                      pieces |-> line \o (IF rest.pieces = <<>> THEN <<>> ELSE <<Str("\n")>>)
                                 \o rest.pieces,
                      requests |-> req \o rest.requests]

list_emails(svc, args, box, o) ==
    IF ~Truthy(svc) THEN Return(<<EmailNotInitialized>>, <<>>, box)
    ELSE
    LET max_results == Get(args, "max_results", PyInt("10"))
        query == Get(args, "query", Str(""))
        params == ("maxResults" :> max_results) @@ ("q" :> query)
        a == MessagesList(box, o)
        req == <<Request("messages.list", None, params, a)>>
    IN  IF ~a.ok
        THEN Return(<<TextContent(<<Str("Failed to list emails: "), Str(a.err)>>)>>, req, a.store)
        ELSE
        LET messages == IF a.resp.present THEN a.resp.items ELSE <<>>
            lines == EmailLines(box, messages, 2, o)
        IN  IF messages = <<>>
            THEN Return(<<TextContent(<<Str("No emails found.")>>)>>, req, a.store)
            ELSE IF lines.err # ""
            THEN Return(<<TextContent(<<Str("Failed to list emails: "), Str(lines.err)>>)>>,
                        req \o lines.requests, a.store)
            ELSE Return(<<TextContent(<<Str("Recent emails:\n")>> \o lines.pieces)>>,
                        req \o lines.requests, a.store)

\* data = part['body']['data']; body = base64.urlsafe_b64decode(data).decode('utf-8')
DecodePart(part) ==
    LET bytes == urlsafe_b64decode(part.data)
        text == Utf8Decode(bytes.bytes)
    IN  IF ~part.hasData THEN [err |-> "'data'", body |-> <<>>]
        ELSE IF ~bytes.ok THEN [err |-> "Incorrect padding", body |-> <<>>]
        ELSE IF ~text.ok THEN [err |-> "'utf-8' codec can't decode", body |-> <<>>]
        ELSE [err |-> "", body |-> text.cp]

\* for part in payload['parts']: if part['mimeType'] == 'text/plain': ...; break
RECURSIVE FirstPlainPart(_)
FirstPlainPart(parts) ==
    IF parts = <<>> THEN [err |-> "", body |-> <<>>]
    ELSE IF Head(parts).mimeType = "text/plain" THEN DecodePart(Head(parts))
    ELSE FirstPlainPart(Tail(parts))

\* The body get_email reports for a payload (lines 155-166).
ExtractBody(payload) ==
    IF payload.hasParts THEN FirstPlainPart(payload.parts)
    ELSE IF payload.mimeType = "text/plain" THEN DecodePart(payload)
    ELSE [err |-> "", body |-> <<>>]

get_email(svc, args, box, o) ==
    IF ~Truthy(svc) THEN Return(<<EmailNotInitialized>>, <<>>, box)
    ELSE
    LET message_id == Get(args, "message_id", None)
        g == MessagesGet(box, message_id, o.fail = 1)
        req == <<Request("messages.get", message_id, EmptyDict, g)>>
    IN  IF ~g.ok
        THEN Return(<<TextContent(<<Str("Failed to get email: "), Str(g.err)>>)>>, req, g.store)
        ELSE
        LET headers == g.resp.payload.headers
            body == ExtractBody(g.resp.payload)
        IN  IF body.err # ""
            THEN Return(<<TextContent(<<Str("Failed to get email: "), Str(body.err)>>)>>,
                        req, g.store)
            ELSE Return(<<TextContent(<<Str("Email Details:\nSubject: "),
                                        Str(HeaderValue(headers, "Subject", "(No Subject)")),
                                        Str("\nFrom: "),
                                        Str(HeaderValue(headers, "From", "(Unknown Sender)")),
                                        Str("\nTo: "),
                                        Str(HeaderValue(headers, "To", "(No Recipient)")),
                                        Str("\nDate: "),
                                        Str(HeaderValue(headers, "Date", "(No Date)")),
                                        Str("\n\nBody:\n"), Text(body.body)>>)>>,
                        req, g.store)

\* call_tool of MinimalEmailServer.setup_tools
email_call_tool(svc, name, args, box, o) ==
    Caught(CASE name = "send_email" -> send_email(svc, args, box, o)
             [] name = "list_emails" -> list_emails(svc, args, box, o)
             [] name = "get_email" -> get_email(svc, args, box, o)
             [] OTHER -> Return(<<TextContent(<<Str("Unknown tool: "), Str(name)>>)>>, <<>>, box))

-----------------------------------------------------------------------------
(* Construction.                                                            *)

TokenStates == {"valid", "missing", "malformed", "insufficient_scopes"}

\* initialize_service: Credentials.from_authorized_user_file raises for a
\* file that is missing (FileNotFoundError) or malformed (ValueError) and
\* does not look at the scopes the token was granted; nothing catches it.
initialize_service(prog, tok) ==
    IF tok \in {"missing", "malformed"}
    THEN [raised |-> TRUE, service |-> None]
    ELSE [raised |-> FALSE,
          service |-> Resource(IF prog = "calendar" THEN "calendar.v3" ELSE "gmail.v1")]

\* No tool call yet.
NoCall == [name |-> "", args |-> EmptyDict, fault |-> FALSE, result |-> <<>>, requests |-> <<>>]

\* What the calendar already holds when the process starts.
TimedEvent ==
    ("id" :> Str("e1")) @@ ("summary" :> Str("A")) @@ ("status" :> Str("confirmed"))
    @@ ("start" :> SubDict) @@ ("start.dateTime" :> Str("T1")) @@ ("start.timeZone" :> Str("UTC"))
    @@ ("end" :> SubDict) @@ ("end.dateTime" :> Str("T2")) @@ ("end.timeZone" :> Str("UTC"))
AllDayEvent ==
    ("id" :> Str("e1")) @@ ("summary" :> Str("A")) @@ ("description" :> Str("D"))
    @@ ("start" :> SubDict) @@ ("start.date" :> Str("D1"))
    @@ ("end" :> SubDict) @@ ("end.date" :> Str("D2"))
InitCalendars == {EmptyDict, ("e1" :> TimedEvent), ("e1" :> AllDayEvent)}

\* What the mailbox already holds: received mail of the usual shapes.
PlainData == B64Encode(Utf8Encode(<<104, 105>>), TRUE)
HtmlData == B64Encode(Utf8Encode(<<60, 98, 62>>), TRUE)
InboxHeaders == <<Header("Subject", "S0"), Header("From", "f@x"), Header("To", "me@x"),
                  Header("Date", "D0")>>
PlainPart == Part("text/plain", <<>>, TRUE, PlainData, <<>>)
HtmlPart == Part("text/html", <<>>, TRUE, HtmlData, <<>>)
Attachment == Part("application/pdf", <<>>, FALSE, <<>>, <<>>)
InboxPayloads ==
    { Part("multipart/alternative", InboxHeaders, FALSE, <<>>, <<HtmlPart, PlainPart>>),
      Part("multipart/mixed", InboxHeaders, FALSE, <<>>,
           <<Part("multipart/alternative", <<>>, FALSE, <<>>, <<PlainPart, HtmlPart>>),
             Attachment>>) }
InitMailboxes == {("m0" :> [id |-> "m0", payload |-> p]) : p \in InboxPayloads}

NoMail == [k \in {} |-> EmptyDict]

Init ==
    /\ self \in {"calendar", "email"}
    /\ phase = "constructing"
    /\ token \in TokenStates
    /\ service = None
    /\ calendar \in (IF self = "calendar" THEN InitCalendars ELSE {EmptyDict})
    /\ mailbox \in (IF self = "email" THEN InitMailboxes ELSE {EmptyDict})
    /\ last = NoCall
    /\ deleted = {}
    /\ sent = NoMail
    /\ tasks = <<>>
    /\ wire = <<>>

\* MinimalCalendarServer() / MinimalEmailServer() in main: an exception of
\* initialize_service leaves __init__ and main, and the process ends.
Construct ==
    /\ phase = "constructing"
    /\ LET r == initialize_service(self, token)
       IN /\ phase' = IF r.raised THEN "crashed" ELSE "serving"
          /\ service' = r.service
    /\ UNCHANGED <<self, token, calendar, mailbox, last, deleted, sent, tasks, wire>>

-----------------------------------------------------------------------------
(* Tool calls.  The provider's part of a call is drawn as o: which request  *)
(* of the call fails (0 for none), the id it gives a new resource, and the *)
(* shape of a list response.                                               *)

Oracle(fail, id, list) == [fail |-> fail, id |-> id, list |-> list]

ListShapes == {"absent", "empty", "items"}

\* A token without the scopes is refused by the provider on every request.
Allowed(o) == token = "insufficient_scopes" => o.fail = 1

RECURSIVE DeletedAfter(_, _)
DeletedAfter(requests, d) ==
    IF requests = <<>> THEN d
    ELSE LET r == Head(requests)
         IN DeletedAfter(Tail(requests),
                IF r.api = "events.delete" /\ r.ok THEN d \cup {r.id.s} ELSE d)

\* call_tool(name, arguments) on the running server
Dispatch(name, args, o) ==
    /\ phase = "serving"
    /\ Allowed(o)
    /\ \E h \in {IF self = "calendar"
                 THEN calendar_call_tool(service, name, args, calendar, o)
                 ELSE email_call_tool(service, name, args, mailbox, o)} :
        LET made == h.requests # <<>> /\ h.requests[1].ok
        IN  /\ last' = [name |-> name, args |-> args, fault |-> h.raised, result |-> h.result,
                        requests |-> h.requests]
            /\ calendar' = IF self = "calendar" THEN h.store ELSE calendar
            /\ mailbox' = IF self = "email" THEN h.store ELSE mailbox
            /\ deleted' = IF made /\ h.requests[1].api = "events.insert"
                          THEN deleted \ {o.id} ELSE DeletedAfter(h.requests, deleted)
            /\ sent' = IF made /\ h.requests[1].api = "messages.send"
                       THEN Put(sent, o.id, args) ELSE sent
    /\ UNCHANGED <<self, phase, token, service, tasks, wire>>

Values(k, V) == {EmptyDict} \cup {(k :> v) : v \in V}
Args2(A, B) == {Merge(a, b) : a \in A, b \in B}

\* Every way of leaving out required arguments, and every kind of attendees.
AddArgs ==
    Args2(Args2(Values("title", {Str("A")}), Values("start_datetime", {Str("T1")})),
          Values("end_datetime", {Str("T2")}))
    \cup Args2({("title" :> Str("A")) @@ ("start_datetime" :> Str("T1"))
                @@ ("end_datetime" :> Str("T2"))},
               Values("attendees", {List(<<>>), List(<<"a@x">>), PyInt("5")}))
ListEventsArgs ==
    {EmptyDict,
     ("max_results" :> PyInt("5")) @@ ("time_min" :> Str("T0")) @@ ("time_max" :> Str("T9"))}
\* Every combination of the four optional arguments present or absent.
UpdateArgs ==
    Args2(Args2({("event_id" :> Str(e)) : e \in EventIds}, Values("title", {Str("B")})),
          Args2(Values("description", {Str("B")}),
                Args2(Values("start_datetime", {Str("T3")}), Values("end_datetime", {Str("T4")}))))
    \cup {EmptyDict, ("title" :> Str("B")), ("event_id" :> None)}
DeleteArgs == Values("event_id", {Str(e) : e \in EventIds} \cup {Str("zz")})

MaxBodyLen == 2
CodePoints == {65, 233, 128512}
Bodies == UNION {[1..n -> CodePoints] : n \in 0..MaxBodyLen}

\* Every body with every combination of cc, bcc and is_html, and every way of
\* leaving out required arguments.
SendArgs ==
    Args2({("to" :> Str("t@x")) @@ ("subject" :> Str("S"))},
          Args2(Values("body", {None} \cup {Text(b) : b \in Bodies}),
                Args2(Values("cc", {Str("c@x")}),
                      Args2(Values("bcc", {Str("b@x")}),
                            Values("is_html", {Bool(TRUE)})))))
    \cup Args2(Args2(Values("to", {Str("t@x")}), Values("subject", {Str("S")})),
               Args2(Values("body", {Text(<<65>>)}), Values("is_html", {Bool(FALSE)})))
ListEmailsArgs == {EmptyDict, ("max_results" :> PyInt("5")) @@ ("query" :> Str("from:f@x"))}
GetArgs == Values("message_id", {Str(m) : m \in MessageIds} \cup {Str("zz")})

CalendarTools == {"add_calendar_event", "list_calendar_events", "update_calendar_event",
                  "delete_calendar_event"}
EmailTools == {"send_email", "list_emails", "get_email"}
Catalog == IF self = "calendar" THEN CalendarTools ELSE EmailTools

AddCalendarEvent ==
    /\ self = "calendar"
    /\ \E args \in AddArgs, fail \in {0, 1}, id \in EventIds :
          Dispatch("add_calendar_event", args, Oracle(fail, id, "items"))

ListCalendarEvents ==
    /\ self = "calendar"
    /\ \E args \in ListEventsArgs, fail \in {0, 1}, list \in ListShapes :
          Dispatch("list_calendar_events", args, Oracle(fail, "", list))

UpdateCalendarEvent ==
    /\ self = "calendar"
    /\ \E args \in UpdateArgs, fail \in {0, 1, 2} :
          Dispatch("update_calendar_event", args, Oracle(fail, "", "items"))

DeleteCalendarEvent ==
    /\ self = "calendar"
    /\ \E args \in DeleteArgs, fail \in {0, 1} :
          Dispatch("delete_calendar_event", args, Oracle(fail, "", "items"))

SendEmail ==
    /\ self = "email"
    /\ \E args \in SendArgs, fail \in {0, 1}, id \in MessageIds \ DOMAIN mailbox :
          Dispatch("send_email", args, Oracle(fail, id, "items"))

ListEmails ==
    /\ self = "email"
    /\ \E args \in ListEmailsArgs, fail \in {0, 1, 2, 3}, list \in ListShapes :
          Dispatch("list_emails", args, Oracle(fail, "", list))

GetEmail ==
    /\ self = "email"
    /\ \E args \in GetArgs, fail \in {0, 1} :
          Dispatch("get_email", args, Oracle(fail, "", "items"))

\* A name outside the server's catalog; the other server's tools are such names.
UnknownNames ==
    {"frobnicate"} \cup (IF self = "calendar" THEN {"send_email"} ELSE {"delete_calendar_event"})

UnknownTool ==
    \E name \in UnknownNames, args \in {EmptyDict, ("event_id" :> Str("e1"))}, fail \in {0, 1} :
        Dispatch(name, args, Oracle(fail, "", "items"))

Calls ==
    \/ AddCalendarEvent
    \/ ListCalendarEvents
    \/ UpdateCalendarEvent
    \/ DeleteCalendarEvent
    \/ SendEmail
    \/ ListEmails
    \/ GetEmail
    \/ UnknownTool

Next == Construct \/ Calls

Spec == Init /\ [][Next]_vars

\* The handlers as methods of a constructed object: self.service holds one of
\* the two values __init__ gives it, None (line 17) or the client (line 32).
InitHandlers ==
    /\ self \in {"calendar", "email"}
    /\ phase = "serving"
    /\ service \in {None, Resource(IF self = "calendar" THEN "calendar.v3" ELSE "gmail.v1")}
    /\ token = "valid"
    /\ calendar \in (IF self = "calendar" THEN InitCalendars ELSE {EmptyDict})
    /\ mailbox \in (IF self = "email" THEN InitMailboxes ELSE {EmptyDict})
    /\ last = NoCall
    /\ deleted = {}
    /\ sent = NoMail
    /\ tasks = <<>>
    /\ wire = <<>>

SpecHandlers == InitHandlers /\ [][Calls]_vars

-----------------------------------------------------------------------------
(* The event loop.  asyncio.run(main()) runs the server on one thread; the  *)
(* server makes one task per call_tool request it reads, and a task that    *)
(* runs keeps the thread until it awaits something that is not ready.       *)

MaxPending == 2

\* A handler that awaited each provider request would give up the thread there.
SuspendsAtExecute(api) == TRUE

\* Whether the handler gives up the thread while a provider request is out:
\* every request is made by .execute(), a plain blocking call that is not
\* awaited, so the loop cannot run another task before the response.
Suspends(api) == FALSE

\* The calls that arrive while others are pending.
LoopCalls ==
    IF self = "calendar"
    THEN {[name |-> "update_calendar_event", o |-> Oracle(f, "", "items"),
           args |-> ("event_id" :> Str("e1")) @@ ("title" :> Str("B"))] : f \in {0, 2}}
         \cup {[name |-> "list_calendar_events", o |-> Oracle(0, "", "items"), args |-> EmptyDict],
               [name |-> "delete_calendar_event", o |-> Oracle(0, "", "items"),
                args |-> ("event_id" :> Str("e1"))],
               [name |-> "add_calendar_event", o |-> Oracle(0, "e1", "items"),
                args |-> ("title" :> Str("A")) @@ ("start_datetime" :> Str("T1"))
                         @@ ("end_datetime" :> Str("T2"))]}
    ELSE {[name |-> "list_emails", o |-> Oracle(f, "", "items"), args |-> EmptyDict] : f \in {0, 2}}
         \cup {[name |-> "get_email", o |-> Oracle(0, "", "items"),
                args |-> ("message_id" :> Str("m0"))],
               [name |-> "send_email", o |-> Oracle(0, "m1", "items"),
                args |-> ("to" :> Str("t@x")) @@ ("subject" :> Str("S"))
                         @@ ("body" :> Text(<<65>>))]}

\* The server reads a call_tool request and makes a task for it; the task
\* has not run yet.  frame holds the handler's locals once it has started.
Receive ==
    /\ phase = "serving"
    /\ Len(tasks) < MaxPending
    /\ \E c \in LoopCalls :
          tasks' = Append(tasks, [name |-> c.name, args |-> c.args, o |-> c.o, pc |-> 0,
                                  state |-> "pending", frame |-> <<>>])
    /\ UNCHANGED <<self, phase, token, service, calendar, mailbox, last, deleted, sent, wire>>

\* How far a task resumed after its pc-th request runs: through each next
\* request up to one at which it suspends, or to the end of the handler.
RECURSIVE RunTo(_, _)
RunTo(requests, pc) ==
    IF pc >= Len(requests) THEN Len(requests)
    ELSE IF Suspends(requests[pc + 1].api) THEN pc + 1
    ELSE RunTo(requests, pc + 1)

\* The loop runs task t: call_tool from its start, or from where it was
\* suspended, up to its next suspension or its return.
Resume(t) ==
    /\ phase = "serving"
    /\ tasks[t].state # "done"
    /\ \E h \in {IF tasks[t].state = "suspended" THEN tasks[t].frame[1]
                 ELSE IF self = "calendar"
                 THEN calendar_call_tool(service, tasks[t].name, tasks[t].args, calendar, tasks[t].o)
                 ELSE email_call_tool(service, tasks[t].name, tasks[t].args, mailbox, tasks[t].o)} :
        LET to == RunTo(h.requests, tasks[t].pc)
            returned == to = Len(h.requests)
            made == h.requests # <<>> /\ h.requests[1].ok
            out == SelectSeq(SubSeq(h.requests, tasks[t].pc + 1, to), LAMBDA r : r.issued)
        IN  /\ wire' = wire \o [i \in 1..Len(out) |-> [task |-> t, api |-> out[i].api]]
            /\ tasks' = [tasks EXCEPT ![t].pc = to,
                                      ![t].state = IF returned THEN "done" ELSE "suspended",
                                      ![t].frame = IF returned THEN <<>> ELSE <<h>>]
            /\ IF returned
               THEN /\ last' = [name |-> tasks[t].name, args |-> tasks[t].args,
                                fault |-> h.raised, result |-> h.result, requests |-> h.requests]
                    /\ calendar' = IF self = "calendar" THEN h.store ELSE calendar
                    /\ mailbox' = IF self = "email" THEN h.store ELSE mailbox
                    /\ deleted' = IF made /\ h.requests[1].api = "events.insert"
                                  THEN deleted \ {tasks[t].o.id}
                                  ELSE DeletedAfter(h.requests, deleted)
                    /\ sent' = IF made /\ h.requests[1].api = "messages.send"
                               THEN Put(sent, tasks[t].o.id, tasks[t].args) ELSE sent
               ELSE UNCHANGED <<last, calendar, mailbox, deleted, sent>>
    /\ UNCHANGED <<self, phase, token, service>>

Run == \E t \in DOMAIN tasks : Resume(t)

NextLoop == Receive \/ Run

\* A constructed server under the loop.
InitLoop ==
    /\ self \in {"calendar", "email"}
    /\ phase = "serving"
    /\ service = Resource(IF self = "calendar" THEN "calendar.v3" ELSE "gmail.v1")
    /\ token = "valid"
    /\ calendar \in (IF self = "calendar" THEN InitCalendars ELSE {EmptyDict})
    /\ mailbox \in (IF self = "email" THEN InitMailboxes ELSE {EmptyDict})
    /\ last = NoCall
    /\ deleted = {}
    /\ sent = NoMail
    /\ tasks = <<>>
    /\ wire = <<>>

SpecLoop == InitLoop /\ [][NextLoop]_vars

-----------------------------------------------------------------------------
(* The claims.                                                              *)

Called(name) == last.name = name
Issued == {i \in DOMAIN last.requests : last.requests[i].issued}
NotInitialized == IF self = "calendar" THEN CalendarNotInitialized ELSE EmailNotInitialized

\* The result is get_email's report and its Body section is cp.
ReportsBody(result, cp) ==
    /\ Len(result) = 1
    /\ Len(result[1].text) = 10
    /\ result[1].text[1] = Str("Email Details:\nSubject: ")
    /\ result[1].text[9] = Str("\n\nBody:\n")
    /\ result[1].text[10] = Text(cp)

\* C1: credential loading never raises: with token.json missing, malformed
\* or short of scopes, construction completes and leaves self.service None.
C1_ConstructionNeverRaises ==
    /\ phase # "crashed"
    /\ (phase = "serving" /\ token # "valid") => service = None

\* C2: a call of a tool of the catalog made while self.service is None
\* returns exactly the one text block with the server's not-initialized
\* message and issues no provider request, whatever the arguments are.
C2_UninitializedService ==
    (last.name \in Catalog /\ service = None) =>
        /\ ~last.fault
        /\ last.result = <<NotInitialized>>
        /\ last.requests = <<>>

C2_Witness ==
    /\ service = None
    /\ Called("add_calendar_event")
    /\ Has(last.args, "attendees") /\ last.args["attendees"].t = "int"
    /\ last.result = <<CalendarNotInitialized>>

\* C3: call_tool is a total error boundary: whatever the tool name, the
\* arguments and the provider's answers, it returns a non-empty list of text
\* blocks, no fault reaches the transport, and the server keeps serving.
C3_ErrorBoundary ==
    last.name # "" =>
        /\ ~last.fault
        /\ Len(last.result) >= 1
        /\ \A i \in DOMAIN last.result : last.result[i].type = "text"
        /\ phase = "serving"

C3_Witness ==
    /\ Called("add_calendar_event")
    /\ last.result = <<TextContent(<<Str("Error: "), Str("object is not iterable")>>)>>
    /\ last.requests = <<>>

\* C4: update_calendar_event writes back the fetched resource changed only
\* in the fields named by the arguments present: title -> summary,
\* description, start_datetime -> start.dateTime, end_datetime -> end.dateTime.
UpdateField ==
    ("title" :> "summary") @@ ("description" :> "description")
    @@ ("start_datetime" :> "start.dateTime") @@ ("end_datetime" :> "end.dateTime")

C4_PartialUpdate ==
    (Called("update_calendar_event") /\ Len(last.requests) = 2) =>
        LET fetched == last.requests[1].resp
            written == last.requests[2].body
            named == {UpdateField[a] : a \in DOMAIN last.args \cap DOMAIN UpdateField}
        IN  /\ last.requests[1].api = "events.get" /\ last.requests[1].ok
            /\ last.requests[2].api = "events.update"
            /\ \A a \in DOMAIN last.args \cap DOMAIN UpdateField :
                  Has(written, UpdateField[a]) /\ written[UpdateField[a]] = last.args[a]
            /\ \A k \in (DOMAIN fetched \cup DOMAIN written) \ named :
                  Has(fetched, k) /\ Has(written, k) /\ written[k] = fetched[k]

C4_Witness ==
    /\ Called("update_calendar_event")
    /\ DOMAIN last.args = {"event_id", "description"}
    /\ Len(last.requests) = 2 /\ last.requests[2].ok
    /\ last.requests[1].resp["summary"] = Str("A")
    /\ ~Has(last.requests[1].resp, "description")
    /\ last.requests[2].body["summary"] = Str("A")
    /\ last.requests[2].body["description"] = Str("B")
    /\ calendar["e1"]["summary"] = Str("A") /\ calendar["e1"]["description"] = Str("B")

\* C5 as claimed: get_email on the id of a message sent by send_email reports
\* exactly the body that was sent, for every body, cc, bcc and is_html.
GotSentMessage ==
    /\ Called("get_email")
    /\ Has(last.args, "message_id")
    /\ last.args["message_id"].s \in DOMAIN sent
    /\ Len(last.requests) = 1 /\ last.requests[1].ok
SentArgs == sent[last.args["message_id"].s]

RECURSIVE FirstPlainAnywhere(_)
FirstPlainAnywhere(parts) ==
    IF parts = <<>> THEN [found |-> FALSE, part |-> Attachment]
    ELSE LET p == Head(parts)
             inside == FirstPlainAnywhere(p.parts)
         IN  IF ~p.hasParts /\ p.mimeType = "text/plain" THEN [found |-> TRUE, part |-> p]
             ELSE IF p.hasParts /\ inside.found THEN inside
             ELSE FirstPlainAnywhere(Tail(parts))

\* C6: get_email reports the decoded content of the first text/plain part
\* of the message wherever it sits in the part tree, nested parts included.
C6_NestedPlainText ==
    (Called("get_email") /\ Len(last.requests) = 1 /\ last.requests[1].ok) =>
        LET first == FirstPlainAnywhere(<<last.requests[1].resp.payload>>)
        IN  (first.found /\ first.part.hasData) =>
               ReportsBody(last.result, Utf8Decode(B64Decode(first.part.data, TRUE).bytes).cp)

\* C7: a call that leaves out an argument the catalog requires, or gives it
\* as null, issues no provider request.
Required ==
    ("add_calendar_event" :> {"title", "start_datetime", "end_datetime"})
    @@ ("update_calendar_event" :> {"event_id"}) @@ ("delete_calendar_event" :> {"event_id"})
    @@ ("send_email" :> {"to", "subject", "body"}) @@ ("get_email" :> {"message_id"})

C7_RequiredArgumentsValidated ==
    (last.name \in Catalog \cap DOMAIN Required /\ Issued # {}) =>
        \A k \in Required[last.name] : Has(last.args, k) /\ last.args[k].t # "none"

\* C8: an update_calendar_event for an event id that was deleted, and not
\* created again since, reports failure and issues no update request.
C8_UpdateAfterDelete ==
    (Called("update_calendar_event") /\ Has(last.args, "event_id")
       /\ last.args["event_id"].s \in deleted) =>
        /\ Len(last.result) = 1
        /\ last.result[1].text[1] = Str("Failed to update event: ")
        /\ \A i \in DOMAIN last.requests : last.requests[i].api # "events.update"

C8_Witness ==
    /\ Called("update_calendar_event")
    /\ Has(last.args, "event_id") /\ last.args["event_id"].s \in deleted
    /\ Has(last.args, "title")
    /\ last.result = <<TextContent(<<Str("Failed to update event: "), Str("HttpError 404")>>)>>

\* C9: for a tool name outside the server's catalog call_tool returns exactly
\* the one text block "Unknown tool: <name>" and issues no provider request,
\* whether or not self.service is set and whatever the arguments are.
C9_UnknownTool ==
    (last.name # "" /\ last.name \notin Catalog) =>
        /\ ~last.fault
        /\ last.result = <<TextContent(<<Str("Unknown tool: "), Str(last.name)>>)>>
        /\ last.requests = <<>>

C9_Witness ==
    /\ Called("frobnicate")
    /\ service # None
    /\ self = "calendar"
    /\ last.args # EmptyDict
    /\ last.result = <<TextContent(<<Str("Unknown tool: "), Str("frobnicate")>>)>>

\* C10: when the provider's list response holds no items (the key absent or
\* an empty list), list_calendar_events and list_emails return exactly one
\* text block with the no-events / no-emails message, and list_emails issues
\* no get request.
NothingListed ==
    /\ last.name \in {"list_calendar_events", "list_emails"} \cap Catalog
    /\ last.requests # <<>> /\ last.requests[1].ok
    /\ (~last.requests[1].resp.present \/ last.requests[1].resp.items = <<>>)

C10_NoResults ==
    NothingListed =>
        /\ last.result = <<TextContent(<<Str(IF self = "calendar" THEN "No upcoming events found."
                                             ELSE "No emails found.")>>)>>
        /\ Len(last.requests) = 1

C10_Witness ==
    /\ NothingListed
    /\ Called("list_calendar_events")
    /\ ~last.requests[1].resp.present
    /\ DOMAIN calendar # {}

\* C11: no handler repeats a provider request.  Within one call only the last
\* request can have failed; add/list/delete_calendar_event, send_email and
\* get_email issue at most one request; update_calendar_event issues one get
\* and then, only after the get succeeded, at most one update; list_emails
\* issues one list and then one get per listed message, in list order, up to
\* the first that fails.
SingleRequestTools ==
    {"add_calendar_event", "list_calendar_events", "delete_calendar_event", "send_email",
     "get_email"}

C11_NoRetry ==
    last.name \in Catalog =>
        LET rq == last.requests
            n == Len(rq)
        IN  /\ \A i \in 1..(n - 1) : rq[i].issued /\ rq[i].ok
            /\ last.name \in SingleRequestTools => n <= 1
            /\ last.name = "update_calendar_event" =>
                  /\ n <= 2
                  /\ n >= 1 => rq[1].api = "events.get"
                  /\ n = 2 => rq[2].api = "events.update"
            /\ (last.name = "list_emails" /\ n >= 1) =>
                  /\ rq[1].api = "messages.list"
                  /\ n >= 2 =>
                        LET listed == rq[1].resp.items
                        IN  /\ n <= 1 + Len(listed)
                            /\ \A i \in 2..n : /\ rq[i].api = "messages.get"
                                               /\ rq[i].id = Str(listed[i - 1])
                            /\ rq[n].ok => n = 1 + Len(listed)

C11_Witness ==
    /\ Called("list_emails")
    /\ Len(last.requests) = 2
    /\ Len(last.requests[1].resp.items) = 2
    /\ ~last.requests[2].ok
    /\ last.result = <<TextContent(<<Str("Failed to list emails: "), Str("HttpError 503")>>)>>

\* C12: tool calls never overlap.  With several calls pending at once, the
\* provider requests of one call are sent one after the other with no request
\* of another call between them, no call is ever left waiting in the middle
\* of its handler, and self.service stays the handle construction gave it.
C12_NoOverlap ==
    /\ \A i \in DOMAIN wire : \A k \in DOMAIN wire :
          (i < k /\ wire[i].task = wire[k].task) =>
              \A j \in i..k : wire[j].task = wire[i].task
    /\ \A t \in DOMAIN tasks : tasks[t].state # "suspended"
    /\ service = Resource(IF self = "calendar" THEN "calendar.v3" ELSE "gmail.v1")

\* The update that arrived first ran after the list that arrived second,
\* so both were pending together, and its get and update went out back to back.
C12_Witness ==
    /\ Len(tasks) = 2
    /\ tasks[1].name = "update_calendar_event" /\ tasks[1].state = "done"
    /\ tasks[2].name = "list_calendar_events" /\ tasks[2].state = "done"
    /\ wire = <<[task |-> 2, api |-> "events.list"], [task |-> 1, api |-> "events.get"],
                [task |-> 1, api |-> "events.update"]>>

====
